---- MODULE Spec2Model ----
(***************************************************************************)
(* Model of the DART client (src/dart.py) and of the storage helpers       *)
(* (src/utils/data.py).                                                    *)
(*                                                                         *)
(* One behaviour is one call of one public method on a freshly built       *)
(* object.  The HTTP server and the database driver are the environment:   *)
(* every response body and every driver outcome is an input chosen with \E.*)
(* Methods without a loop are one action; get_list and get_company take    *)
(* one action for the call and one action per loop iteration, because      *)
(* every iteration consumes one response.                                  *)
(*                                                                         *)
(* An exception is a record [type, frags]: frags is the set of text        *)
(* fragments the exception's argument contains.                            *)
(***************************************************************************)
EXTENDS Integers, Sequences, FiniteSets, TLC

VARIABLES
    op,       \* the method called ("none" before the call)
    pc,       \* "idle", "loop", "returned" or "raised"
    args,     \* the arguments of the call
    page_no,  \* get_list: params['page_no']
    n,        \* get_company: the index enumerate() yields next
    df,       \* get_list, get_company: the table accumulated so far
    pages,    \* history: the lists of the pages accepted so far
    srv,      \* history: what the server reported about the paging
    last,     \* history: the last response received, <<>> before the first
    trace,    \* history: requests, sleeps, prints and decoding steps, in order
    result,   \* <<v>> once the call returned v, <<>> otherwise
    error,    \* the exception that left the call, NoError otherwise
    db        \* the rows committed to the database

vars == <<op, pc, args, page_no, n, df, pages, srv, last, trace, result, error, db>>

(***************************************************************************)
(* Bounds of the model.                                                    *)
(***************************************************************************)
MaxRows == 2        \* rows in one page's list
MaxPageNo == 3      \* cap on the page cursor of get_list
MaxTotal == 6       \* largest total_count a response reports
MaxCodes == 2       \* length of the short corp_codes lists
MaxElems == 2       \* children of the XML root
MaxChildren == 2    \* children of one <list> element
MaxData == 2        \* rows handed to insert

(***************************************************************************)
(* Program constants.                                                      *)
(***************************************************************************)
ThrottleEvery == 100    \* get_company: (n % 100) == 1 and (n >= 100)

SeqsUpTo(S, k) == UNION {[1..m -> S] : m \in 0..k}

RECURSIVE Flatten(_)
Flatten(ss) == IF ss = <<>> THEN <<>> ELSE Head(ss) \o Flatten(Tail(ss))

NoError == [type |-> "None", frags |-> {}]

BaseUrl == "https://opendart.fss.or.kr/api/"

\* requests.get(url, params): the one GET a call of request issues.
request(api, key) == [ev |-> "request", url |-> BaseUrl \o api, key |-> key]

Requests == SelectSeq(trace, LAMBDA e : e.ev = "request")

(***************************************************************************)
(* JSON responses: the parsed body of json_response.text.                  *)
(***************************************************************************)
RowVals == {"a", "b"}
Lists == SeqsUpTo(RowVals, MaxRows)
ErrStatuses == {"013", "020"}
Messages == {"no data", "limit exceeded"}
PageCounts == {2}

OkPages ==
    [status : {"000"}, message : {"ok"}, has_list : {TRUE}, list : Lists,
     total_count : 0..MaxTotal, page_count : PageCounts, page_no : 1..MaxPageNo]

Plain(status, message, has_list, list) ==
    [status |-> status, message |-> message, has_list |-> has_list, list |-> list,
     total_count |-> Len(list), page_count |-> 2, page_no |-> 1]

ErrResponses == {Plain(s, m, h, <<>>) : s \in ErrStatuses, m \in Messages, h \in BOOLEAN}

NoListResponses == {Plain("000", "ok", FALSE, <<>>)}

OkLists == {Plain("000", "ok", TRUE, l) : l \in Lists}

JsonResponses == OkLists \cup NoListResponses \cup ErrResponses

PagedResponses == OkPages \cup NoListResponses \cup ErrResponses

\* load_json with the status check removed.
load_json_NoStatusCheck(json_response, list_off) ==
    IF (~json_response.has_list) /\ (list_off = FALSE)
    THEN [raised |-> TRUE,
          error |-> [type |-> "ValueError",
                     frags |-> {"list element is not in response message"}]]
    ELSE [raised |-> FALSE, error |-> NoError]

\* DartBase.load_json: ValueError(json_response.text) carries the whole body.
load_json(json_response, list_off) ==
    IF json_response.status # "000"
    THEN [raised |-> TRUE,
          error |-> [type |-> "ValueError",
                     frags |-> {json_response.status, json_response.message}]]
    ELSE IF (~json_response.has_list) /\ (list_off = FALSE)
    THEN [raised |-> TRUE,
          error |-> [type |-> "ValueError",
                     frags |-> {"list element is not in response message"}]]
    ELSE [raised |-> FALSE, error |-> NoError]

\* json_normalize(response, 'list'): one row per list entry, index 0..k-1.
json_normalize(list) == [i \in 1..Len(list) |-> [idx |-> i - 1, row |-> list[i]]]

\* DataFrame.append: rows of other after the rows of self, indexes kept.
append(self, other) == self \o other

\* DataFrame.reset_index(inplace=True, drop=True).
reset_index(frame) == [i \in 1..Len(frame) |-> [idx |-> i - 1, row |-> frame[i].row]]

Rows(frame) == [i \in 1..Len(frame) |-> frame[i].row]

\* math.ceil(a / b) for a >= 0, b > 0.
ceil(a, b) == (a + b - 1) \div b

(***************************************************************************)
(* Python values that are either a str or a list of str.                   *)
(***************************************************************************)
CorpCodes == {"A", "B"}
PyStr(s) == [type |-> "str", str |-> s, items |-> <<>>]
PyList(l) == [type |-> "list", str |-> "", items |-> l]
LongLens == {ThrottleEvery + 1, ThrottleEvery + 2, 2 * ThrottleEvery + 2}
LongList(k) == [i \in 1..k |-> IF i % 2 = 1 THEN "A" ELSE "B"]
ShortArgs == {PyStr(c) : c \in CorpCodes} \cup {PyList(l) : l \in SeqsUpTo(CorpCodes, MaxCodes)}
LongArgs == {PyList(LongList(k)) : k \in LongLens}

\* ','.join(items)
RECURSIVE join(_)
join(items) ==
    IF items = <<>> THEN ""
    ELSE IF Len(items) = 1 THEN items[1]
    ELSE items[1] \o "," \o join(Tail(items))

Head2(response) == <<[status |-> response.status, message |-> response.message]>>

(***************************************************************************)
(* DisclosureInfo.get_list                                                 *)
(***************************************************************************)
\* get_list, lines 129-132, with every page replacing the table.
accumulate_Replace(page, frame, response) == json_normalize(response.list)

\* get_list, lines 129-132: the first page starts the table, later ones are appended.
accumulate(page, frame, response) ==
    IF page = 1
    THEN json_normalize(response.list)
    ELSE append(frame, json_normalize(response.list))

\* get_list, line 137: the reported page is the last one.
last_page(response) ==
    ceil(response.total_count, response.page_count) = response.page_no

\* What the responses so far said about the paging: the page count P they
\* reported, and whether all of them reported the same P and echoed the
\* requested page number.
report(response, page) ==
    LET P == ceil(response.total_count, response.page_count)
        echo == response.page_no = page
        ok == echo /\ (srv.seen => (srv.consistent /\ srv.P = P))
    IN [seen |-> TRUE, consistent |-> ok, P |-> IF ok THEN P ELSE 0]

call_get_list ==
    /\ pc = "idle"
    /\ \E paging \in BOOLEAN :
        /\ op' = "get_list"
        /\ args' = [paging |-> paging]
        /\ pc' = "loop"
        /\ page_no' = 1
    /\ UNCHANGED <<n, df, pages, srv, last, trace, result, error, db>>

\* One iteration of the while loop of get_list (lines 125-140), and lines
\* 142-144 when the loop breaks.
get_list_iteration ==
    /\ pc = "loop"
    /\ op = "get_list"
    /\ \E response \in PagedResponses :
        LET loaded == load_json(response, FALSE)
            frame == accumulate(page_no, df, response)
        IN /\ trace' = Append(trace, request("list.json", page_no))
           /\ last' = Head2(response)
           /\ IF loaded.raised
              THEN /\ pc' = "raised"
                   /\ error' = loaded.error
                   /\ UNCHANGED <<page_no, df, pages, srv, result>>
              ELSE /\ pages' = Append(pages, response.list)
                   /\ srv' = report(response, page_no)
                   /\ error' = error
                   /\ IF (args.paging = FALSE) \/ last_page(response)
                      THEN /\ pc' = "returned"
                           /\ df' = reset_index(frame)
                           /\ result' = <<reset_index(frame)>>
                           /\ page_no' = page_no
                      ELSE /\ page_no < MaxPageNo
                           /\ pc' = "loop"
                           /\ df' = frame
                           /\ result' = result
                           /\ page_no' = page_no + 1
    /\ UNCHANGED <<op, args, n, db>>

(***************************************************************************)
(* DisclosureInfo.get_company                                              *)
(***************************************************************************)
Profiles == {"p", "q"}
CompanyResponses(choices) ==
    [status : {"000"}, message : {"ok"}, has_list : {FALSE}, profile : choices]
    \cup [status : ErrStatuses, message : Messages, has_list : {FALSE}, profile : {"p"}]

\* The long lists are answered with one profile only, to keep the runs linear.
ProfilesFor(codes) == IF Len(codes) <= MaxCodes THEN Profiles ELSE {"p"}

\* get_company, lines 160-161: a str becomes a one-element list.
as_list(corp_codes) ==
    IF corp_codes.type = "str" THEN <<corp_codes.str>> ELSE corp_codes.items

\* get_company, line 165: n is the 0-based index enumerate() yields.
throttle(k) == (k % ThrottleEvery = 1) /\ (k >= ThrottleEvery)

\* get_company, lines 171-172: json_normalize(response) without status, message.
temp_df(response) == <<[idx |-> 0, row |-> response.profile]>>

\* get_company, line 173, with the new row put first.
add_profile_Front(frame, response) == append(temp_df(response), frame)

\* get_company, line 173.
add_profile(frame, response) == append(frame, temp_df(response))

call_get_company ==
    /\ pc = "idle"
    /\ \E corp_codes \in ShortArgs \cup LongArgs :
        /\ op' = "get_company"
        /\ args' = [corp_codes |-> corp_codes]
        /\ n' = 0
        /\ IF as_list(corp_codes) = <<>>
           THEN pc' = "returned" /\ result' = <<(<<>>)>>
           ELSE pc' = "loop" /\ result' = result
    /\ UNCHANGED <<page_no, df, pages, srv, last, trace, error, db>>

\* One iteration of the for loop of get_company (lines 164-173), and line
\* 175 after the last one.
get_company_iteration ==
    /\ pc = "loop"
    /\ op = "get_company"
    /\ LET codes == as_list(args.corp_codes)
           corp_code == codes[n + 1]
           slept == IF throttle(n) THEN <<[ev |-> "sleep", url |-> "", key |-> ""]>> ELSE <<>>
       IN \E response \in CompanyResponses(ProfilesFor(codes)) :
           LET loaded == load_json(response, TRUE)
               frame == add_profile(df, response)
           IN /\ trace' = trace \o slept \o <<request("company.json", corp_code)>>
              /\ last' = Head2(response)
              /\ IF loaded.raised
                 THEN /\ pc' = "raised"
                      /\ error' = loaded.error
                      /\ UNCHANGED <<n, df, pages, result>>
                 ELSE /\ df' = frame
                      /\ pages' = Append(pages, <<response.profile>>)
                      /\ n' = n + 1
                      /\ error' = error
                      /\ IF n + 1 = Len(codes)
                         THEN pc' = "returned" /\ result' = <<frame>>
                         ELSE pc' = "loop" /\ result' = result
    /\ UNCHANGED <<op, args, page_no, srv, db>>

(***************************************************************************)
(* The methods that issue one JSON GET                                     *)
(***************************************************************************)
\* request, load_json and json_normalize(response, 'list'), as get_report,
\* get_statement and get_all_statement run them (e.g. lines 291-296).
json_call(api, key, response) ==
    LET loaded == load_json(response, FALSE)
    IN [trace |-> <<request(api, key)>>,
        raised |-> loaded.raised,
        error |-> loaded.error,
        result |-> IF loaded.raised THEN <<>> ELSE <<json_normalize(response.list)>>]

\* get_report, lines 228-241.  The keys are romanised: the source has them in
\* Hangul (jeungja = capital increase, baedang = dividends, ...).
keyword_map ==
    ("jeungja" :> "irdsSttus") @@ ("baedang" :> "alotMatter")
    @@ ("jagijusik" :> "tesstkAcqsDspsSttus") @@ ("choedaejuju" :> "hyslrSttus")
    @@ ("choedaejujubyeondong" :> "hyslrChgSttus") @@ ("soaekjuju" :> "mrhlSttus")
    @@ ("imwon" :> "exctvSttus") @@ ("jigwon" :> "empSttus")
    @@ ("imwongaeinbosu" :> "hmvAuditIndvdlBySttus")
    @@ ("imwonjeonchebosu" :> "hmvAuditAllSttus")
    @@ ("gaeinbyeolbosu" :> "indvdlByPay") @@ ("tabeobinchulja" :> "otrCprInvstmntSttus")

Keywords == DOMAIN keyword_map \cup {"", "irdsSttus", "baedanggeum"}

\* get_report without the check of the keyword: an unknown keyword is sent on.
get_report_NoCheck(corp_code, keyword, response) ==
    json_call((IF keyword \in DOMAIN keyword_map THEN keyword_map[keyword] ELSE keyword)
              \o ".json", corp_code, response)

\* ReportInfo.get_report, lines 243-259.
get_report(corp_code, keyword, response) ==
    IF keyword \notin DOMAIN keyword_map
    THEN [trace |-> <<>>,
          raised |-> TRUE,
          error |-> [type |-> "ValueError",
                     frags |-> {"keyword is invalid"} \cup DOMAIN keyword_map],
          result |-> <<>>]
    ELSE json_call(keyword_map[keyword] \o ".json", corp_code, response)

\* get_statement with the endpoint chosen by the number of identifiers.
api_type_ByLength(corp_code) ==
    IF corp_code.type = "list" /\ Len(corp_code.items) >= 2
    THEN "fnlttMultiAcnt.json"
    ELSE "fnlttSinglAcnt.json"

\* get_statement, lines 276-280: the endpoint is chosen by the argument's type.
api_type(corp_code) ==
    IF corp_code.type = "list" THEN "fnlttMultiAcnt.json" ELSE "fnlttSinglAcnt.json"

\* FinancialStatement.get_statement, lines 276-296.
get_statement(corp_code, response) ==
    json_call(api_type(corp_code),
              IF corp_code.type = "list" THEN join(corp_code.items) ELSE corp_code.str,
              response)

\* FinancialStatement.get_all_statement, lines 332-345.
get_all_statement(corp_code, response) ==
    json_call("fnlttSinglAcntAll.json", corp_code, response)

\* FinancialStatement.get_taxonomy_statement, lines 355-366.
get_taxonomy_statement(sj_div, response) ==
    json_call("xbrlTaxonomy.json", sj_div, response)

\* ShareDisclosure.get_bulk_holders, lines 380-391.
get_bulk_holders(corp_code, response) ==
    json_call("majorstock.json", corp_code, response)

\* ShareDisclosure.get_major_holders, lines 401-412.
get_major_holders(corp_code, response) ==
    json_call("elestock.json", corp_code, response)

Finish(name, arguments, received, out) ==
    /\ op' = name
    /\ args' = arguments
    /\ last' = received
    /\ trace' = out.trace
    /\ pc' = IF out.raised THEN "raised" ELSE "returned"
    /\ error' = out.error
    /\ result' = out.result
    /\ UNCHANGED <<page_no, n, df, pages, srv, db>>

call_get_report ==
    /\ pc = "idle"
    /\ \E corp_code \in CorpCodes, keyword \in Keywords, response \in JsonResponses :
        LET out == get_report(corp_code, keyword, response)
        IN Finish("get_report", [corp_code |-> corp_code, keyword |-> keyword],
                  IF out.trace = <<>> THEN <<>> ELSE Head2(response), out)

call_get_statement ==
    /\ pc = "idle"
    /\ \E corp_code \in ShortArgs, response \in JsonResponses :
        Finish("get_statement", [corp_code |-> corp_code], Head2(response),
               get_statement(corp_code, response))

call_get_all_statement ==
    /\ pc = "idle"
    /\ \E corp_code \in CorpCodes, response \in JsonResponses :
        Finish("get_all_statement", [corp_code |-> corp_code], Head2(response),
               get_all_statement(corp_code, response))

SjDivs == {"BS1", "IS1"}

call_get_taxonomy_statement ==
    /\ pc = "idle"
    /\ \E sj_div \in SjDivs, response \in JsonResponses :
        Finish("get_taxonomy_statement", [sj_div |-> sj_div], Head2(response),
               get_taxonomy_statement(sj_div, response))

call_get_bulk_holders ==
    /\ pc = "idle"
    /\ \E corp_code \in CorpCodes, response \in JsonResponses :
        Finish("get_bulk_holders", [corp_code |-> corp_code], Head2(response),
               get_bulk_holders(corp_code, response))

call_get_major_holders ==
    /\ pc = "idle"
    /\ \E corp_code \in CorpCodes, response \in JsonResponses :
        Finish("get_major_holders", [corp_code |-> corp_code], Head2(response),
               get_major_holders(corp_code, response))

(***************************************************************************)
(* XML documents: the sequence of the root's children.  Every child is an  *)
(* element [tag, children]; the children of a <list> element are leaves    *)
(* [tag, text].                                                            *)
(***************************************************************************)
Leaves == {[tag |-> "a", text |-> "x"], [tag |-> "a", text |-> "y"], [tag |-> "b", text |-> "x"]}
ListElems == [tag : {"list"}, children : SeqsUpTo(Leaves, MaxChildren)]
OtherElems == {[tag |-> "status", children |-> <<>>]}
Elems == ListElems \cup OtherElems
DocSamples == {<<>>, <<[tag |-> "list", children |-> <<[tag |-> "a", text |-> "x"]>>]>>}

(***************************************************************************)
(* Response bodies of the XML endpoints: a well-formed XML message, a ZIP  *)
(* archive of entries, or bytes that are neither.  An entry is             *)
(* [name, enc, xml]: name is its file name (two entries of an archive may  *)
(* carry the same name), enc says which codecs decode its bytes, xml is    *)
(* the document they spell.                                                *)
(***************************************************************************)
Encodings == {"euc_kr", "utf8", "binary"}
FileNames == {"a.xml", "b.xml"}
Entry(name, enc, doc) == [name |-> name, enc |-> enc, xml |-> doc]

Body(kind, has_status, status, message, files) ==
    [kind |-> kind, has_status |-> has_status, status |-> status,
     message |-> message, files |-> files]

XmlBodies ==
    {Body("xml", TRUE, s, m, <<>>) : s \in {"000", "010", "020"}, m \in {"ok", "unregistered key"}}
    \cup {Body("xml", FALSE, "", "", <<>>)}

ZipBodies(docs) ==
    {Body("zip", FALSE, "", "", <<>>)}
    \cup {Body("zip", FALSE, "", "", <<Entry("a.xml", e, d)>>) : e \in Encodings, d \in docs}
    \cup {Body("zip", FALSE, "", "", <<Entry("a.xml", e1, d1), Entry(f2, e2, d2)>>) :
             e1 \in Encodings, d1 \in docs, f2 \in FileNames, e2 \in Encodings, d2 \in docs}

JunkBodies == {Body("junk", FALSE, "", "", <<>>)}

Bodies(docs) == XmlBodies \cup ZipBodies(docs) \cup JunkBodies

Step(name) == [ev |-> name, url |-> "", key |-> ""]

\* check_xml with `except Exception` in place of `except ET.ParseError`.
check_xml_CatchAll(response) ==
    [raised |-> FALSE, error |-> NoError, printed |-> TRUE]

\* DartBase.check_xml, lines 41-51.  ET.XML raises ParseError on bytes that
\* are not well-formed XML; find() returns None for a missing element.
check_xml(response) ==
    IF response.kind # "xml"
    THEN [raised |-> FALSE, error |-> NoError, printed |-> TRUE]
    ELSE IF ~response.has_status
    THEN [raised |-> TRUE, error |-> [type |-> "AttributeError", frags |-> {}],
          printed |-> FALSE]
    ELSE IF response.status # "000"
    THEN [raised |-> TRUE,
          error |-> [type |-> "ValueError", frags |-> {response.status, response.message}],
          printed |-> FALSE]
    ELSE [raised |-> FALSE, error |-> NoError, printed |-> FALSE]

\* ZipFile.read(name), line 57: a name resolves to the last entry of the
\* archive that carries it.
zip_read(files, name) ==
    LET i == CHOOSE j \in 1..Len(files) :
                /\ files[j].name = name
                /\ \A k \in (j + 1)..Len(files) : files[k].name # name
    IN files[i]

\* DartBase.load_xml, lines 54-66: the entry read is the one that the name of
\* the first entry resolves to.  The second `except UnicodeDecodeError` is
\* never entered: a failure of the utf-8 decode leaves the function.
load_xml(xml) ==
    IF xml.kind # "zip"
    THEN [raised |-> TRUE, error |-> [type |-> "BadZipFile", frags |-> {}], text |-> <<>>]
    ELSE IF xml.files = <<>>
    THEN [raised |-> TRUE, error |-> [type |-> "IndexError", frags |-> {}], text |-> <<>>]
    ELSE LET info_list == xml.files
             xml_data == zip_read(xml.files, info_list[1].name)
         IN IF xml_data.enc \in {"euc_kr", "utf8"}
            THEN [raised |-> FALSE, error |-> NoError, text |-> <<xml_data.xml>>]
            ELSE [raised |-> TRUE, error |-> [type |-> "UnicodeDecodeError", frags |-> {}],
                  text |-> <<>>]

\* request, check_xml, load_xml as get_document, get_corp_code and
\* get_raw_statement run them (e.g. lines 191-195).
zip_call(api, key, response) ==
    LET checked == check_xml(response)
        loaded == load_xml(response)
        head == <<request(api, key), Step("check_xml")>>
                \o (IF checked.printed THEN <<Step("print")>> ELSE <<>>)
    IN IF checked.raised
       THEN [trace |-> head, raised |-> TRUE, error |-> checked.error, result |-> <<>>]
       ELSE [trace |-> Append(head, Step("load_xml")),
             raised |-> loaded.raised,
             error |-> loaded.error,
             result |-> loaded.text]

RECURSIVE first_seen(_, _)
first_seen(tags, seen) ==
    IF tags = <<>> THEN <<>>
    ELSE IF Head(tags) \in seen THEN first_seen(Tail(tags), seen)
    ELSE <<Head(tags)>> \o first_seen(Tail(tags), seen \cup {Head(tags)})

\* convert_xml_to_dataframe, lines 75-78: a dict keeps the last text of a tag.
record(child) ==
    LET c == child.children
        tags == {c[j].tag : j \in 1..Len(c)}
        lastOf(t) == CHOOSE j \in 1..Len(c) :
                        /\ c[j].tag = t
                        /\ \A k \in (j + 1)..Len(c) : c[k].tag # t
    IN [t \in tags |-> c[lastOf(t)].text]

\* pd.DataFrame(all_records): the columns are the keys of all the records in
\* the order they first appear; a key a record lacks is NaN in its row.
DataFrame(all_records) ==
    LET keys(r) == LET c == r.children IN [j \in 1..Len(c) |-> c[j].tag]
        columns == first_seen(Flatten([i \in 1..Len(all_records) |-> keys(all_records[i])]),
                              {})
        cols == {columns[j] : j \in 1..Len(columns)}
    IN [columns |-> columns,
        rows |-> [i \in 1..Len(all_records) |->
                     [t \in cols |-> IF t \in DOMAIN record(all_records[i])
                                     THEN record(all_records[i])[t]
                                     ELSE "NaN"]]]

\* convert_xml_to_dataframe with the columns taken from the first record only.
convert_xml_to_dataframe_FirstKeys(xml) ==
    LET element == SelectSeq(xml, LAMBDA e : e.tag = "list")
        whole == DataFrame(element)
        first == IF element = <<>> THEN <<>> ELSE DataFrame(<<element[1]>>).columns
        cols == {first[j] : j \in 1..Len(first)}
    IN [columns |-> first,
        rows |-> [i \in 1..Len(element) |-> [t \in cols |-> whole.rows[i][t]]]]

\* DartBase.convert_xml_to_dataframe, lines 69-81.
convert_xml_to_dataframe(xml) ==
    LET element == SelectSeq(xml, LAMBDA e : e.tag = "list")
    IN DataFrame(element)

\* DisclosureInfo.get_document, lines 185-195.
get_document(rcp_no, response) == zip_call("document.xml", rcp_no, response)

\* FinancialStatement.get_raw_statement, lines 307-318.
get_raw_statement(rcp_no, response) == zip_call("fnlttXbrl.xml", rcp_no, response)

\* DisclosureInfo.get_corp_code, lines 203-212.
get_corp_code(response) ==
    LET out == zip_call("corpCode.xml", "", response)
    IN IF out.raised THEN out
       ELSE [out EXCEPT !.result = <<convert_xml_to_dataframe(out.result[1])>>]

RcpNos == {"20200101000001"}

call_get_document ==
    /\ pc = "idle"
    /\ \E rcp_no \in RcpNos, response \in Bodies(DocSamples) :
        Finish("get_document", [rcp_no |-> rcp_no], <<response>>,
               get_document(rcp_no, response))

call_get_raw_statement ==
    /\ pc = "idle"
    /\ \E rcp_no \in RcpNos, response \in Bodies(DocSamples) :
        Finish("get_raw_statement", [rcp_no |-> rcp_no], <<response>>,
               get_raw_statement(rcp_no, response))

Archive(doc) == Body("zip", FALSE, "", "", <<Entry("a.xml", "euc_kr", doc)>>)

call_get_corp_code ==
    /\ pc = "idle"
    /\ \/ \E response \in Bodies(DocSamples) :
            Finish("get_corp_code", [rcp_no |-> ""], <<response>>, get_corp_code(response))
       \/ \E m \in 0..MaxElems : \E doc \in [1..m -> Elems] :
            Finish("get_corp_code", [rcp_no |-> ""], <<Archive(doc)>>,
                   get_corp_code(Archive(doc)))

(***************************************************************************)
(* Storage helpers (src/utils/data.py).  The driver either runs the batch  *)
(* and commits it, or fails in executemany, or fails in commit.            *)
(***************************************************************************)
Tuples == {"t1", "t2"}
DriverOutcomes == {"ok", "executemany fails", "commit fails"}

\* DBConnector.insert without the try/except.
DBConnector_insert_Reraise(rows, data, outcome) ==
    IF outcome = "ok"
    THEN [db |-> rows \o data, raised |-> FALSE, error |-> NoError, trace |-> <<>>]
    ELSE [db |-> rows, raised |-> TRUE,
          error |-> [type |-> "DatabaseError", frags |-> {outcome}], trace |-> <<>>]

\* DBConnector.insert, lines 28-35: every Exception is caught and printed.
DBConnector_insert(rows, data, outcome) ==
    IF outcome = "ok"
    THEN [db |-> rows \o data, raised |-> FALSE, error |-> NoError, trace |-> <<>>]
    ELSE [db |-> rows, raised |-> FALSE, error |-> NoError, trace |-> <<Step("print")>>]

\* SQLiteConnector.insert, lines 76-78: no handler, the driver's error leaves it.
SQLiteConnector_insert(rows, data, outcome) ==
    IF outcome = "ok"
    THEN [db |-> rows \o data, raised |-> FALSE, error |-> NoError, trace |-> <<>>]
    ELSE [db |-> rows, raised |-> TRUE,
          error |-> [type |-> "DatabaseError", frags |-> {outcome}], trace |-> <<>>]

Inserted(name, data, outcome, out) ==
    /\ op' = name
    /\ args' = [data |-> data, outcome |-> outcome]
    /\ db' = out.db
    /\ trace' = out.trace
    /\ pc' = IF out.raised THEN "raised" ELSE "returned"
    /\ error' = out.error
    /\ result' = IF out.raised THEN <<>> ELSE <<"None">>
    /\ UNCHANGED <<page_no, n, df, pages, srv, last>>

call_DBConnector_insert ==
    /\ pc = "idle"
    /\ \E data \in SeqsUpTo(Tuples, MaxData), outcome \in DriverOutcomes :
        Inserted("DBConnector.insert", data, outcome, DBConnector_insert(db, data, outcome))

call_SQLiteConnector_insert ==
    /\ pc = "idle"
    /\ \E data \in SeqsUpTo(Tuples, MaxData), outcome \in DriverOutcomes :
        Inserted("SQLiteConnector.insert", data, outcome,
                 SQLiteConnector_insert(db, data, outcome))

(***************************************************************************)
(* The specification                                                       *)
(***************************************************************************)
Init ==
    /\ op = "none"
    /\ pc = "idle"
    /\ args = [none |-> TRUE]
    /\ page_no = 1
    /\ n = 0
    /\ df = <<>>
    /\ pages = <<>>
    /\ srv = [seen |-> FALSE, consistent |-> TRUE, P |-> 0]
    /\ last = <<>>
    /\ trace = <<>>
    /\ result = <<>>
    /\ error = NoError
    /\ db = <<>>

Next ==
    \/ call_get_list
    \/ get_list_iteration
    \/ call_get_company
    \/ get_company_iteration
    \/ call_get_report
    \/ call_get_statement
    \/ call_get_all_statement
    \/ call_get_taxonomy_statement
    \/ call_get_bulk_holders
    \/ call_get_major_holders
    \/ call_get_document
    \/ call_get_raw_statement
    \/ call_get_corp_code
    \/ call_DBConnector_insert
    \/ call_SQLiteConnector_insert

Spec == Init /\ [][Next]_vars

(***************************************************************************)
(* Vocabulary of the properties                                            *)
(***************************************************************************)
Url(i) == Requests[i].url
Evs == {trace[i].ev : i \in 1..Len(trace)}
Pos(name) == CHOOSE i \in 1..Len(trace) : trace[i].ev = name
TagsOf(elem) == {elem.children[j].tag : j \in 1..Len(elem.children)}
ListsOf(doc) == SelectSeq(doc, LAMBDA e : e.tag = "list")
\* The document of the entry an archive yields: the last entry named like the first.
Extracted(body) ==
    LET f == body.files
        last_same == CHOOSE i \in 1..Len(f) :
                        /\ f[i].name = f[1].name
                        /\ \A k \in (i + 1)..Len(f) : f[k].name # f[1].name
    IN f[last_same].xml
ColumnSet(table) == {table.columns[j] : j \in 1..Len(table.columns)}
GivenCodes == IF args.corp_codes.type = "str"
              THEN <<args.corp_codes.str>>
              ELSE args.corp_codes.items
RequestsBefore(i) == Cardinality({j \in 1..(i - 1) : trace[j].ev = "request"})

(***************************************************************************)
(* C1: a JSON response whose status is not '000' makes get_list (at any    *)
(* page), get_report, get_statement and get_all_statement raise a          *)
(* ValueError that contains the server's message, and no table is returned.*)
(***************************************************************************)
C1_StatusErrorRaises ==
    (/\ op \in {"get_list", "get_report", "get_statement", "get_all_statement"}
     /\ last # <<>>
     /\ last[1].status # "000")
    => /\ pc = "raised"
       /\ error.type = "ValueError"
       /\ last[1].message \in error.frags
       /\ result = <<>>

\* get_list fails on the second page of a paged run.
C1_Witness ==
    /\ op = "get_list"
    /\ args.paging
    /\ Len(Requests) = 2
    /\ last[1].status = "013"
    /\ pc = "raised"

(***************************************************************************)
(* C2: the table get_list returns with paging=True holds the rows of the   *)
(* accepted pages in page order and, within a page, in list order; its row *)
(* count is the sum of the pages' list lengths.                            *)
(***************************************************************************)
RECURSIVE SumLen(_)
SumLen(ss) == IF ss = <<>> THEN 0 ELSE Len(Head(ss)) + SumLen(Tail(ss))

C2_PagesConcatenated ==
    (op = "get_list" /\ args.paging /\ pc = "returned")
    => /\ Len(result[1]) = SumLen(pages)
       /\ Rows(result[1]) = Flatten(pages)

\* Two pages, the first with two different rows, were concatenated.
C2_Witness ==
    /\ op = "get_list"
    /\ args.paging
    /\ pc = "returned"
    /\ Len(pages) = 2
    /\ pages[1] = <<"b", "a">>
    /\ pages[2] = <<"a">>

(***************************************************************************)
(* C3: get_company requests the identifiers one by one in input order,     *)
(* never more than once each; when it returns it has issued one request    *)
(* per identifier and the table has one row per identifier, row i being    *)
(* the profile answered to the i-th identifier.  A str is one identifier.  *)
(***************************************************************************)
C3_OneRequestPerIdentifier ==
    op = "get_company"
    => /\ Len(Requests) <= Len(GivenCodes)
       /\ \A i \in 1..Len(Requests) :
            /\ Requests[i].key = GivenCodes[i]
            /\ Url(i) = BaseUrl \o "company.json"
       /\ pc = "returned"
          => /\ Len(Requests) = Len(GivenCodes)
             /\ Len(result[1]) = Len(GivenCodes)
             /\ Rows(result[1]) = Flatten(pages)
       /\ (pc = "returned" /\ args.corp_codes.type = "str")
          => (Len(Requests) = 1 /\ Len(result[1]) = 1)

\* ['B', 'A'] was answered with q then p, and the table has q then p.
C3_Witness ==
    /\ op = "get_company"
    /\ pc = "returned"
    /\ args.corp_codes = PyList(<<"B", "A">>)
    /\ Len(Requests) = 2
    /\ Rows(result[1]) = <<"q", "p">>

(***************************************************************************)
(* C4 as stated: given at least one identifier, get_statement uses the     *)
(* multi-entity endpoint exactly when it is given a list of 2 or more      *)
(* identifiers, and the single-entity endpoint for a str and for a         *)
(* one-element list.                                                       *)
(***************************************************************************)
C4_Original ==
    op = "get_statement"
    => LET c == args.corp_code
       IN (c.type = "str" \/ Len(c.items) >= 1)
          => Url(1) = BaseUrl \o (IF c.type = "list" /\ Len(c.items) >= 2
                                THEN "fnlttMultiAcnt.json"
                                ELSE "fnlttSinglAcnt.json")

(***************************************************************************)
(* C4 amended: get_statement sends its one request to the multi-entity     *)
(* endpoint exactly when its argument is a list, whatever the list's       *)
(* length, and to the single-entity endpoint when it is a str.             *)
(***************************************************************************)
C4_DispatchByType ==
    op = "get_statement"
    => /\ Len(Requests) = 1
       /\ (Url(1) = BaseUrl \o "fnlttMultiAcnt.json") <=> (args.corp_code.type = "list")
       /\ (Url(1) = BaseUrl \o "fnlttSinglAcnt.json") <=> (args.corp_code.type = "str")

\* A one-element list went to the multi-entity endpoint.
C4_Witness ==
    /\ op = "get_statement"
    /\ args.corp_code = PyList(<<"A">>)
    /\ Url(1) = BaseUrl \o "fnlttMultiAcnt.json"

(***************************************************************************)
(* C5: get_report with a keyword outside the mapping raises a ValueError   *)
(* that lists the valid keywords and issues no request; with a valid       *)
(* keyword it issues exactly one request, to the endpoint of the keyword.  *)
(***************************************************************************)
C5_KeywordValidated ==
    op = "get_report"
    => IF args.keyword \in DOMAIN keyword_map
       THEN /\ Len(Requests) = 1
            /\ Url(1) = BaseUrl \o keyword_map[args.keyword] \o ".json"
       ELSE /\ Requests = <<>>
            /\ pc = "raised"
            /\ error.type = "ValueError"
            /\ DOMAIN keyword_map \subseteq error.frags

\* An endpoint code given as the keyword was rejected before any request.
C5_Witness ==
    /\ op = "get_report"
    /\ args.keyword = "irdsSttus"
    /\ pc = "raised"
    /\ trace = <<>>

(***************************************************************************)
(* C6 as stated: the table of get_corp_code has one row per <list> child   *)
(* of the root, row i holds the tag->text pairs of the i-th <list>         *)
(* element's children (one text per tag, the last child's), and the column *)
(* set is the tag set of the first <list> element.                         *)
(***************************************************************************)
C6_Original ==
    (op = "get_corp_code" /\ pc = "returned")
    => LET lists == ListsOf(Extracted(last[1]))
           table == result[1]
       IN /\ Len(table.rows) = Len(lists)
          /\ ColumnSet(table) = (IF lists = <<>> THEN {} ELSE TagsOf(lists[1]))
          /\ \A i \in 1..Len(lists) :
                LET c == lists[i].children
                IN \A j \in 1..Len(c) :
                      (\A k \in (j + 1)..Len(c) : c[k].tag # c[j].tag)
                      => table.rows[i][c[j].tag] = c[j].text

(***************************************************************************)
(* C6 amended: the table has one row per <list> child of the root; its     *)
(* column set is the union of the child-tag sets of all <list> elements;   *)
(* row i holds, for every tag among the i-th element's children, the text  *)
(* of the last child with that tag, and NaN in every other column.         *)
(***************************************************************************)
C6_ColumnsAreUnion ==
    (op = "get_corp_code" /\ pc = "returned")
    => LET lists == ListsOf(Extracted(last[1]))
           table == result[1]
       IN /\ Len(table.rows) = Len(lists)
          /\ ColumnSet(table) = UNION {TagsOf(lists[i]) : i \in 1..Len(lists)}
          /\ \A i \in 1..Len(lists) :
                LET c == lists[i].children
                IN /\ \A j \in 1..Len(c) :
                        (\A k \in (j + 1)..Len(c) : c[k].tag # c[j].tag)
                        => table.rows[i][c[j].tag] = c[j].text
                   /\ \A t \in ColumnSet(table) \ TagsOf(lists[i]) :
                        table.rows[i][t] = "NaN"

\* The second <list> element has a tag the first one lacks.
C6_Witness ==
    /\ op = "get_corp_code"
    /\ pc = "returned"
    /\ LET lists == ListsOf(Extracted(last[1]))
       IN /\ Len(lists) = 2
          /\ TagsOf(lists[1]) = {"a"}
          /\ TagsOf(lists[2]) = {"a", "b"}
    /\ ColumnSet(result[1]) = {"a", "b"}

(***************************************************************************)
(* C7 as stated: in both connectors a failure of the driver in insert is   *)
(* printed and not raised, and insert returns normally.                    *)
(***************************************************************************)
C7_Original ==
    (op \in {"DBConnector.insert", "SQLiteConnector.insert"} /\ args.outcome # "ok")
    => /\ pc = "returned"
       /\ error = NoError
       /\ "print" \in Evs

(***************************************************************************)
(* C7 amended: DBConnector.insert prints a failure of the driver and       *)
(* returns normally; SQLiteConnector.insert has no handler, the driver's   *)
(* error leaves it and nothing is printed.  Neither commits a row then.    *)
(***************************************************************************)
C7_OnlyDBConnectorSwallows ==
    /\ (op = "DBConnector.insert" /\ args.outcome # "ok")
       => (pc = "returned" /\ error = NoError /\ "print" \in Evs /\ db = <<>>)
    /\ (op = "SQLiteConnector.insert" /\ args.outcome # "ok")
       => (pc = "raised" /\ error.type = "DatabaseError" /\ "print" \notin Evs /\ db = <<>>)

\* A failed commit of two rows was swallowed by DBConnector.insert.
C7_Witness ==
    /\ op = "DBConnector.insert"
    /\ args.outcome = "commit fails"
    /\ Len(args.data) = 2
    /\ pc = "returned"

(***************************************************************************)
(* C8 as stated: get_list requests the pages 1, 2, ... in increasing order *)
(* without repeating one; with paging=False it issues one request and      *)
(* returns that page; with paging=True, against a server whose successful  *)
(* responses all report the same page count P and the page asked for, it   *)
(* never goes past page P and has requested exactly 1..P when it returns.  *)
(***************************************************************************)
C8_Original ==
    op = "get_list"
    => /\ \A i \in 1..Len(Requests) : Requests[i].key = i
       /\ (~args.paging /\ pc = "returned")
          => (Len(Requests) = 1 /\ Rows(result[1]) = pages[1])
       /\ (args.paging /\ srv.seen /\ srv.consistent)
          => /\ pc = "loop" => page_no <= srv.P
             /\ pc = "returned" => Len(Requests) = srv.P

(***************************************************************************)
(* C9 as stated: get_company sleeps between request 100*k and request      *)
(* 100*k+1 for every k >= 1, and nowhere else.                             *)
(***************************************************************************)
C9_Original ==
    op = "get_company"
    => \A i \in 1..Len(trace) :
         LET due == RequestsBefore(i) >= ThrottleEvery
                    /\ RequestsBefore(i) % ThrottleEvery = 0
         IN /\ trace[i].ev = "sleep" => due
            /\ (trace[i].ev = "request" /\ due) => (i > 1 /\ trace[i - 1].ev = "sleep")

(***************************************************************************)
(* C10: in get_document, get_corp_code and get_raw_statement the status    *)
(* check runs before the extraction.  A well-formed XML body with a status *)
(* other than '000' raises a ValueError and nothing is extracted; a body   *)
(* that is not well-formed XML is printed about, raises nothing in the     *)
(* check, and the method goes on to the extraction.                        *)
(***************************************************************************)
C10_CheckBeforeExtract ==
    op \in {"get_document", "get_corp_code", "get_raw_statement"}
    => LET body == last[1]
       IN /\ "load_xml" \in Evs => Pos("check_xml") < Pos("load_xml")
          /\ (body.kind = "xml" /\ body.has_status /\ body.status # "000")
             => /\ pc = "raised"
                /\ error.type = "ValueError"
                /\ {body.status, body.message} \subseteq error.frags
                /\ "load_xml" \notin Evs
                /\ result = <<>>
          /\ body.kind # "xml"
             => /\ "print" \in Evs
                /\ "load_xml" \in Evs
                /\ error.type \in {"None", "BadZipFile", "IndexError", "UnicodeDecodeError"}

\* get_document got an XML error message instead of an archive.
C10_Witness ==
    /\ op = "get_document"
    /\ last[1].kind = "xml"
    /\ last[1].status = "010"
    /\ pc = "raised"
    /\ "check_xml" \in Evs

====
